---- MODULE Spec2Model ----
(***************************************************************************)
(* URL shortener (React, browser-only): the record store hook              *)
(* useUrlStorage, the submission form UrlShortenerForm, the Statistics     *)
(* view and the redirect resolver RedirectHandler, over localStorage.      *)
(*                                                                         *)
(* Strings the code inspects character by character (URLs, short codes)    *)
(* are sequences of one-character strings; strings it only passes around   *)
(* (messages, ids) are TLA+ strings.                                       *)
(***************************************************************************)
EXTENDS Integers, Sequences, FiniteSets, TLC

VARIABLES
  now,            \* Date.now()
  stored,         \* localStorage["shortened-urls"]: Null or the serialized collection
  view,           \* what is mounted: "none", "form", "stats", "redirect", "away"
  shortenedUrls,  \* useUrlStorage state of the mounted component
  submitted,      \* UrlShortenerForm: the forms of the last handleSubmit
  errors,         \* UrlShortenerForm: errors state (index -> field -> message)
  successCount,   \* UrlShortenerForm: the count in successMessage (0: no message)
  createdUrls,    \* handleSubmit: its createdUrls array at the last submit
  prevUrls,       \* the in-memory collection when the last submit began
  prevStored,     \* localStorage["shortened-urls"] when the last submit began
  saveFailed,     \* a localStorage.setItem threw during the last handler
  shortCode,      \* RedirectHandler: the route parameter
  error,          \* RedirectHandler: error state
  redirecting,    \* RedirectHandler: redirecting state
  countdown,      \* RedirectHandler: countdown state
  timers,         \* live setInterval timers: records [id, url]
  cleanup,        \* interval id the last effect run's cleanup clears (0: none)
  effectPending,  \* a re-render was committed and its effects have not run yet
  href,           \* window.location.href: App, or the URL navigated to
  storedAtMount,  \* localStorage["shortened-urls"] when the resolver mounted
  mountedAt,      \* Date.now() when the resolver mounted
  everStarted,    \* the mounted resolver has started a countdown timer
  ticks,          \* interval callbacks run since the resolver mounted
  storeLog,       \* the logger calls of useUrlStorage in the last handler
  uncaught,       \* an exception left useUrlStorage in the last handler
  logs,           \* Logger: the logs array
  appLogs,        \* localStorage["app-logs"]
  logWriteFailures \* Logger.saveLogs: the storage writes that threw so far

vars == << now, stored, view, shortenedUrls, submitted, errors, successCount,
           createdUrls, prevUrls, prevStored, saveFailed, shortCode, error,
           redirecting, countdown, timers, cleanup, effectPending, href,
           storedAtMount, mountedAt, everStarted, ticks, storeLog, uncaught,
           logs, appLogs, logWriteFailures >>

formVars ==
  << submitted, errors, successCount, createdUrls, prevUrls, prevStored >>
resolverVars == << shortCode, error, redirecting, countdown, cleanup,
                   effectPending, storedAtMount, mountedAt, everStarted, ticks >>
\* Logger state: a diagnostic side channel no component reads back
loggerVars == << logs, appLogs, logWriteFailures >>

----------------------------------------------------------------------------
(* Bounds of the model *)

\* localStorage quota, in units of one click (a record without clicks takes two)
StorageCapacity == 6
\* forms in one submitted batch (the code allows up to MaxForms)
MaxBatch == 2
\* logger calls in one run of the Logger
MaxLogAppends == 1002
\* writes of "app-logs" that hit the quota in one run of the Logger
MaxLogWriteFailures == 1

(* Program constants *)
MinShortCodeLength == 3
MaxShortCodeLength == 20
RandomShortCodeLength == 6
MaxValidityMinutes == 43200
MaxForms == 5
CountdownStart == 3
maxLogs == 1000
MsPerMinute == 60 * 1000


----------------------------------------------------------------------------
(* Characters and strings *)

\* urlUtils.ts generateRandomShortCode: the 62-character alphabet
chars ==
  << "a", "b", "c", "d", "e", "f", "g", "h", "i", "j", "k", "l", "m",
     "n", "o", "p", "q", "r", "s", "t", "u", "v", "w", "x", "y", "z",
     "A", "B", "C", "D", "E", "F", "G", "H", "I", "J", "K", "L", "M",
     "N", "O", "P", "Q", "R", "S", "T", "U", "V", "W", "X", "Y", "Z",
     "0", "1", "2", "3", "4", "5", "6", "7", "8", "9" >>

Lowercase == { chars[i] : i \in 1..26 }
Uppercase == { chars[i] : i \in 27..52 }
Digits == { chars[i] : i \in 53..62 }
Alpha == Lowercase \cup Uppercase
Alphanumeric == Alpha \cup Digits
Whitespace == { " ", "\t", "\n" }

\* String.prototype.toLowerCase on one character
ToLower(c) ==
  IF c \in Uppercase
    THEN chars[(CHOOSE i \in 27..52 : chars[i] = c) - 26]
    ELSE c

RECURSIVE TrimStart(_)
TrimStart(s) ==
  IF s # << >> /\ Head(s) \in Whitespace THEN TrimStart(Tail(s)) ELSE s

RECURSIVE TrimEnd(_)
TrimEnd(s) ==
  IF s # << >> /\ s[Len(s)] \in Whitespace
    THEN TrimEnd(SubSeq(s, 1, Len(s) - 1))
    ELSE s

\* String.prototype.trim
Trim(s) == TrimEnd(TrimStart(s))

\* String.prototype.indexOf for one character, 1-based; 0 when absent
IndexOf(s, c) ==
  IF \E i \in 1..Len(s) : s[i] = c
    THEN CHOOSE i \in 1..Len(s) : s[i] = c /\ \A j \in 1..(i - 1) : s[j] # c
    ELSE 0

----------------------------------------------------------------------------
(* Identifier utilities: urlUtils.ts *)

SpecialSchemes ==
  { <<"h","t","t","p">>, <<"h","t","t","p","s">>, <<"f","t","p">>,
    <<"w","s">>, <<"w","s","s">> }
HostEnd == { "/", "\\", "?", "#" }
ForbiddenHostChars == { " ", "<", ">", "^", "|", "%", "[", "]" }

RECURSIVE SkipSlashes(_)
SkipSlashes(s) ==
  IF s # << >> /\ Head(s) \in { "/", "\\" } THEN SkipSlashes(Tail(s)) ELSE s

RECURSIVE TakeHost(_)
TakeHost(s) ==
  IF s = << >> \/ Head(s) \in HostEnd
    THEN << >>
    ELSE << Head(s) >> \o TakeHost(Tail(s))

\* new URL(url) without a base: TRUE when the parser returns a URL, FALSE
\* when it throws.  The input is stripped, must start with a scheme
\* (a letter, then letters, digits, "+", "-", "."; then ":"), and a special
\* scheme other than file needs a non-empty host without forbidden characters.
UrlParses(url) ==
  LET s == Trim(url)
      colon == IndexOf(s, ":")
      scheme == [ i \in 1..(colon - 1) |-> ToLower(s[i]) ]
      rest == SubSeq(s, colon + 1, Len(s))
      host == TakeHost(SkipSlashes(rest))
  IN  /\ colon > 1
      /\ s[1] \in Alpha
      /\ \A i \in 2..(colon - 1) : s[i] \in Alphanumeric \cup { "+", "-", "." }
      /\ scheme \in SpecialSchemes =>
           /\ host # << >>
           /\ \A i \in 1..Len(host) : host[i] \notin ForbiddenHostChars

validateUrl(url) == UrlParses(url)

\* /^[a-zA-Z0-9]+$/.test(shortCode) && 3 <= length <= 20
validateShortCode(code) ==
  /\ Len(code) >= 1
  /\ \A i \in 1..Len(code) : code[i] \in Alphanumeric
  /\ Len(code) >= MinShortCodeLength
  /\ Len(code) <= MaxShortCodeLength

\* generateRandomShortCode: draw[i] is Math.floor(Math.random() * chars.length)
generateRandomShortCode(draw) ==
  [ i \in 1..RandomShortCodeLength |-> chars[draw[i] + 1] ]

isShortCodeUnique(code, existingUrls) ==
  ~ \E i \in 1..Len(existingUrls) : existingUrls[i].shortCode = code

\* getCoarseLocation: the candidate list
locations ==
  << "New York, US", "London, UK", "Tokyo, JP", "Sydney, AU", "Berlin, DE",
     "Mumbai, IN" >>
getCoarseLocation(r) == locations[r + 1]

\* getSimulatedIP: four octets, each Math.floor(Math.random() * 255)
getSimulatedIP(o) == << o[1], o[2], o[3], o[4] >>

----------------------------------------------------------------------------
(* The persistence collaborator: JSON text under "shortened-urls" *)

NoItem == [ present |-> FALSE, text |-> << >> ]
\* localStorage without the "app-logs" key
NoLogItem == [ present |-> FALSE, text |-> << >> ]

ClickKeys == << "id", "timestamp", "userAgent", "referrer", "ip", "location" >>
UrlKeys ==
  << "id", "originalUrl", "shortCode", "createdAt", "expiresAt",
     "validityMinutes", "clicks", "isActive" >>

\* JSON.stringify of an object: its members, in key order
StringifyObject(obj, keys) == [ i \in 1..Len(keys) |-> << keys[i], obj[keys[i]] >> ]

\* JSON.parse of an object: the value of the last member of each key
ParseObject(members) ==
  [ k \in { members[i][1] : i \in 1..Len(members) } |->
      members[CHOOSE i \in 1..Len(members) :
                /\ members[i][1] = k
                /\ \A j \in (i + 1)..Len(members) : members[j][1] # k][2] ]

\* mutant: the clicks of a record written as an empty array
StringifyUrl_noClicks(url) ==
  StringifyObject([ url EXCEPT !.clicks = << >> ], UrlKeys)

StringifyUrl(url) ==
  StringifyObject(
    [ url EXCEPT !.clicks =
        [ i \in 1..Len(url.clicks) |-> StringifyObject(url.clicks[i], ClickKeys) ] ],
    UrlKeys)

ParseUrl(members) ==
  LET obj == ParseObject(members)
  IN  [ obj EXCEPT !.clicks = [ i \in 1..Len(@) |-> ParseObject(@[i]) ] ]

JSONstringify(urls) == [ i \in 1..Len(urls) |-> StringifyUrl(urls[i]) ]
JSONparse(text) == [ i \in 1..Len(text) |-> ParseUrl(text[i]) ]

\* JSON.parse returns (TRUE) or throws a SyntaxError (FALSE): every member of
\* every object of the text has its name and its value
JSONparses(text) ==
  \A i \in 1..Len(text) : \A j \in 1..Len(text[i]) : Len(text[i][j]) = 2

\* what the stored text takes of the quota: two units per record and one
\* more per click
RECURSIVE StorageSize(_)
StorageSize(urls) ==
  IF urls = << >>
    THEN 0
    ELSE 2 + Len(Head(urls).clicks) + StorageSize(Tail(urls))

\* localStorage.setItem('shortened-urls', ...) returns (TRUE) or throws (FALSE)
setItemOk(urls) == StorageSize(urls) <= StorageCapacity

\* the collection persisted under the key, an absent key or a text that
\* does not parse read as empty
persistedUrls ==
  IF stored.present /\ JSONparses(stored.text)
    THEN JSONparse(stored.text)
    ELSE << >>

----------------------------------------------------------------------------
(* Event log: Logger *)

LogKeys == << "id", "timestamp", "level", "message", "data", "source" >>

\* JSON.stringify(this.logs)
StringifyLogs(ls) == [ i \in 1..Len(ls) |-> StringifyObject(ls[i], LogKeys) ]

\* addLog: the logEvent object
logEvent(id, t, level, message, data, source) ==
  [ id |-> id, timestamp |-> t, level |-> level, message |-> message,
    data |-> data, source |-> source ]

\* mutant: the new entry pushed at the end, the slice taking the last maxLogs
addLogLogs_push(ls, event) ==
  IF Len(ls) + 1 > maxLogs
    THEN SubSeq(ls \o << event >>, 2, maxLogs + 1)
    ELSE ls \o << event >>

\* addLog: this.logs after unshift and the slice to maxLogs
addLogLogs(ls, event) ==
  IF Len(ls) + 1 > maxLogs
    THEN SubSeq(<< event >> \o ls, 1, maxLogs)
    ELSE << event >> \o ls

\* addLog, then saveLogs: writeOk says localStorage.setItem returns; when it
\* throws, the catch block of saveLogs swallows the exception
addLog(level, message, data, source, id, writeOk) ==
  /\ logs' = addLogLogs(logs, logEvent(id, now, level, message, data, source))
  /\ appLogs' = IF writeOk
                  THEN [ present |-> TRUE, text |-> StringifyLogs(logs') ]
                  ELSE appLogs
  /\ logWriteFailures' = IF writeOk THEN logWriteFailures ELSE logWriteFailures + 1
  /\ UNCHANGED << now, stored, view, shortenedUrls, saveFailed, timers, href,
                  formVars, resolverVars, storeLog, uncaught >>

\* logger.info, logger.warn, logger.error, logger.debug
LoggerInfo(message, data, source, id, writeOk) ==
  addLog("info", message, data, source, id, writeOk)
LoggerWarn(message, data, source, id, writeOk) ==
  addLog("warn", message, data, source, id, writeOk)
LoggerError(message, data, source, id, writeOk) ==
  addLog("error", message, data, source, id, writeOk)
LoggerDebug(message, data, source, id, writeOk) ==
  addLog("debug", message, data, source, id, writeOk)

----------------------------------------------------------------------------
(* Record store: useUrlStorage *)

\* The store state a handler works on: item is localStorage's value of the
\* key, state the shortenedUrls state, failed says a setItem threw, log holds
\* the logger calls made, thrown says an exception is propagating.
storeAt(item, state) ==
  [ item |-> item, state |-> state, failed |-> FALSE, log |-> << >>,
    thrown |-> FALSE ]

LogEntry(level, message) == [ level |-> level, message |-> message ]

\* logger.info / logger.error called by useUrlStorage: Logger.saveLogs catches
\* what its own storage write throws, so the call returns; it is not reached
\* while an exception propagates
loggerCall(st, level, message) ==
  IF st.thrown
    THEN st
    ELSE [ st EXCEPT !.log = Append(@, LogEntry(level, message)) ]

\* loadUrls, the try block: set says setShortenedUrls was called
loadUrlsTry(state) ==
  IF ~ stored.present
    THEN [ state |-> state, set |-> FALSE, log |-> << >>, thrown |-> FALSE ]
    ELSE IF ~ JSONparses(stored.text)
      THEN [ state |-> state, set |-> FALSE, log |-> << >>, thrown |-> TRUE ]
      ELSE [ state |-> JSONparse(stored.text), set |-> TRUE,
             log |-> << LogEntry("info", "Loaded URLs from storage") >>,
             thrown |-> FALSE ]

\* mutant: loadUrls without its catch block
loadUrlsRun_uncaught(state) == loadUrlsTry(state)

\* loadUrls: try { ... } catch (error) { logger.error(...) }
loadUrlsRun(state) ==
  IF loadUrlsTry(state).thrown
    THEN [ loadUrlsTry(state) EXCEPT
             !.thrown = FALSE,
             !.log = Append(@, LogEntry("error", "Failed to load URLs from storage")) ]
    ELSE loadUrlsTry(state)

\* loadUrls: the shortenedUrls state it leaves; state is left alone when the
\* key is absent or its text does not parse
loadUrls(state) == loadUrlsRun(state).state

\* mutant: setShortenedUrls called before localStorage.setItem
saveUrlsTry_stateFirst(st, urls) ==
  IF setItemOk(urls)
    THEN loggerCall(
           [ st EXCEPT !.item = [ present |-> TRUE, text |-> JSONstringify(urls) ],
                       !.state = urls ],
           "info", "Saved URLs to storage")
    ELSE [ st EXCEPT !.state = urls, !.failed = TRUE, !.thrown = TRUE ]

\* mutant: saveUrls without its setShortenedUrls(urls)
saveUrlsTry_noSetState(st, urls) ==
  IF setItemOk(urls)
    THEN loggerCall(
           [ st EXCEPT !.item = [ present |-> TRUE, text |-> JSONstringify(urls) ] ],
           "info", "Saved URLs to storage")
    ELSE [ st EXCEPT !.failed = TRUE, !.thrown = TRUE ]

\* saveUrls, the try block
saveUrlsTry(st, urls) ==
  IF setItemOk(urls)
    THEN loggerCall(
           [ st EXCEPT !.item = [ present |-> TRUE, text |-> JSONstringify(urls) ],
                       !.state = urls ],
           "info", "Saved URLs to storage")
    ELSE [ st EXCEPT !.failed = TRUE, !.thrown = TRUE ]

\* saveUrls(urls): try { ... } catch (error) { logger.error(...) }
saveUrls(st, urls) ==
  IF st.thrown
    THEN st
    ELSE IF saveUrlsTry(st, urls).thrown
      THEN loggerCall([ saveUrlsTry(st, urls) EXCEPT !.thrown = FALSE ],
                      "error", "Failed to save URLs to storage")
      ELSE saveUrlsTry(st, urls)

\* addUrl: closure is the shortenedUrls the handler closed over
addUrl(st, closure, url) ==
  loggerCall(saveUrls(st, Append(closure, url)),
             "info", "Added new shortened URL")

\* addClick: the updatedUrls array
addClickUrls(closure, code, clickData) ==
  [ i \in 1..Len(closure) |->
      IF closure[i].shortCode = code
        THEN [ closure[i] EXCEPT !.clicks = Append(@, clickData) ]
        ELSE closure[i] ]

addClick(st, closure, code, clickData) ==
  loggerCall(saveUrls(st, addClickUrls(closure, code, clickData)),
             "info", "Added click data")

\* mutant: the key is removed and the in-memory collection kept
clearAllUrls_keepsMemory(st) ==
  loggerCall([ st EXCEPT !.item = NoItem ], "info", "Cleared all URLs")

\* clearAllUrls
clearAllUrls(st) ==
  loggerCall([ st EXCEPT !.item = NoItem, !.state = << >> ],
             "info", "Cleared all URLs")

\* findUrlByShortCode: the index of the found record, 0 for undefined
findUrlByShortCode(closure, code) ==
  LET hits == { i \in 1..Len(closure) :
                  closure[i].shortCode = code /\ closure[i].isActive }
  IN  IF hits = {} THEN 0 ELSE CHOOSE i \in hits : \A j \in hits : i <= j

\* mutant: the comparison turned round
isUrlExpired_reversed(url, t) == t < url.expiresAt

isUrlExpired(url, t) == t > url.expiresAt

\* mutant: a record counts as expired from expiresAt on
isExpired_inclusive(url, t) == t >= url.expiresAt

\* Statistics isExpired
isExpired(url, t) == t > url.expiresAt

\* Statistics getStatusChip: the label of the chip
getStatusChip(url, t) ==
  IF ~ url.isActive
    THEN "Inactive"
    ELSE IF isExpired(url, t) THEN "Expired" ELSE "Active"

----------------------------------------------------------------------------
(* Submission validator and commit: UrlShortenerForm *)

\* one object with a key set to a value (obj[key] = value in JavaScript)
WithKey(obj, key, value) ==
  [ k \in DOMAIN obj \cup { key } |-> IF k = key THEN value ELSE obj[k] ]

NoErrors == [ k \in {} |-> "" ]

originalUrlError(form) ==
  IF Trim(form.originalUrl) = << >>
    THEN WithKey(NoErrors, "originalUrl", "URL is required")
    ELSE IF ~ validateUrl(form.originalUrl)
      THEN WithKey(NoErrors, "originalUrl", "Please enter a valid URL")
      ELSE NoErrors

customShortCodeError(form, existingUrls, formErrors) ==
  IF Trim(form.customShortCode) # << >>
    THEN IF ~ validateShortCode(form.customShortCode)
      THEN WithKey(formErrors, "customShortCode",
                   "Shortcode must be 3-20 alphanumeric characters")
      ELSE IF ~ isShortCodeUnique(form.customShortCode, existingUrls)
        THEN WithKey(formErrors, "customShortCode",
                     "This shortcode is already taken")
        ELSE formErrors
    ELSE formErrors

\* mutant: the upper end of the validity range left out
validityMinutesError_exclusive(form, formErrors) ==
  IF form.validityMinutes < 1 \/ form.validityMinutes >= MaxValidityMinutes
    THEN WithKey(formErrors, "validityMinutes",
                 "Validity must be between 1 and 43200 minutes")
    ELSE formErrors

validityMinutesError(form, formErrors) ==
  IF form.validityMinutes < 1 \/ form.validityMinutes > MaxValidityMinutes
    THEN WithKey(formErrors, "validityMinutes",
                 "Validity must be between 1 and 43200 minutes")
    ELSE formErrors

\* validateForm(index, form): the formErrors object
validateForm(form, existingUrls) ==
  validityMinutesError(form,
    customShortCodeError(form, existingUrls, originalUrlError(form)))

\* validateAllForms: the { code, index } items with a non-empty trimmed code
shortCodesOf(forms) ==
  LET items == [ i \in 1..Len(forms) |->
                   [ code |-> Trim(forms[i].customShortCode), index |-> i ] ]
  IN  SelectSeq(items, LAMBDA item : item.code # << >>)

\* mutant: no cross-form check
duplicateIndexes_none(shortCodes) == {}

\* mutant: every form whose code occurs twice, the first occurrence too
duplicateIndexes_all(shortCodes) ==
  { shortCodes[p].index :
      p \in { q \in 1..Len(shortCodes) :
                \E f \in 1..Len(shortCodes) :
                  f # q /\ shortCodes[f].code = shortCodes[q].code } }

\* validateAllForms: the form indexes of the duplicates array, the items
\* whose code is first found at another position of shortCodes
duplicateIndexes(shortCodes) ==
  { shortCodes[p].index :
      p \in { q \in 1..Len(shortCodes) :
                (CHOOSE f \in 1..Len(shortCodes) :
                   /\ shortCodes[f].code = shortCodes[q].code
                   /\ \A g \in 1..(f - 1) :
                        shortCodes[g].code # shortCodes[q].code) # q } }

\* validateAllForms: the allErrors object
validateAllForms(forms, existingUrls) ==
  LET dups == duplicateIndexes(shortCodesOf(forms))
      own == [ i \in 1..Len(forms) |-> validateForm(forms[i], existingUrls) ]
      flagged == { i \in 1..Len(forms) : DOMAIN own[i] # {} \/ i \in dups }
  IN  [ i \in flagged |->
          IF i \in dups
            THEN WithKey(own[i], "customShortCode",
                         "Duplicate shortcode in current forms")
            ELSE own[i] ]

\* mutant: the validity taken as seconds
newShortenedUrl_seconds(form, draw, id, t) ==
  [ id |-> id,
    originalUrl |-> form.originalUrl,
    shortCode |-> IF Trim(form.customShortCode) # << >>
                    THEN Trim(form.customShortCode)
                    ELSE generateRandomShortCode(draw),
    createdAt |-> t,
    expiresAt |-> t + form.validityMinutes * 1000,
    validityMinutes |-> form.validityMinutes,
    clicks |-> << >>,
    isActive |-> TRUE ]

\* handleSubmit: the ShortenedUrl built for one form
newShortenedUrl(form, draw, id, t) ==
  [ id |-> id,
    originalUrl |-> form.originalUrl,
    shortCode |-> IF Trim(form.customShortCode) # << >>
                    THEN Trim(form.customShortCode)
                    ELSE generateRandomShortCode(draw),
    createdAt |-> t,
    expiresAt |-> t + form.validityMinutes * MsPerMinute,
    validityMinutes |-> form.validityMinutes,
    clicks |-> << >>,
    isActive |-> TRUE ]

\* handleSubmit: forms.forEach(... addUrl(shortenedUrl) ...), every addUrl
\* with the shortenedUrls of the render that created the handler
RECURSIVE addAll(_, _, _)
addAll(st, closure, urls) ==
  IF urls = << >>
    THEN st
    ELSE addAll(addUrl(st, closure, Head(urls)), closure, Tail(urls))

----------------------------------------------------------------------------
(* Inputs *)

\* instants Date.now() is sampled at
Instants == { 0, 60001 }
\* instants around the end of a validity of one minute that began at 0
BoundaryInstants == { 0, 59999, 60000, 60001 }

UrlOk == <<"h","t","t","p",":","/","/","a">>     \* "http://a"
UrlBad == <<"a"," ","b">>                        \* "a b"
CodeAbc == <<"a","b","c">>
CodeAaaaaa == <<"a","a","a","a","a","a">>
CodeAb == <<"a","b">>
Form(url, code, minutes) ==
  [ originalUrl |-> url, customShortCode |-> code, validityMinutes |-> minutes ]
FormChoices ==
  { Form(UrlOk, << >>, 1), Form(UrlOk, CodeAbc, 1), Form(UrlOk, CodeAb, 1),
    Form(UrlBad, << >>, -1) }
\* forms at the edges of every per-form check
Code20 == [ i \in 1..MaxShortCodeLength |-> "a" ]
Code21 == [ i \in 1..(MaxShortCodeLength + 1) |-> "a" ]
EdgeForms ==
  { Form(UrlOk, << >>, 1), Form(UrlOk, << " " >>, 1), Form(UrlOk, CodeAbc, 1),
    Form(UrlOk, CodeAaaaaa, 1), Form(UrlOk, CodeAb, 1),
    Form(UrlOk, << "a", "-", "c" >>, 1), Form(UrlOk, << " ", "a", "b", "c" >>, 1),
    Form(UrlOk, Code20, 1), Form(UrlOk, Code21, 1),
    Form(<< >>, << >>, 1), Form(<< " " >>, << >>, 1), Form(UrlBad, << >>, 1),
    Form(UrlOk, << >>, -1), Form(UrlOk, << >>, MaxValidityMinutes),
    Form(UrlOk, << >>, MaxValidityMinutes + 1) }

\* the forms state at a submit: one form, or up to MaxBatch forms
SingleForms == [ 1..1 -> FormChoices ]
Batches == UNION { [ 1..k -> FormChoices ] : k \in 1..MaxBatch }

\* Math.random() outcomes
RandomDraws ==
  { [ i \in 1..RandomShortCodeLength |-> 0 ],
    [ i \in 1..RandomShortCodeLength |-> 61 ] }
RecordIds == { "r1" }
ClickIds == { "c1" }
LocationDraws == { 0 }
OctetDraws == { << 0, 127, 254, 1 >> }

\* Texts another writer of the "shortened-urls" key (another tab, an earlier
\* version of the application) may leave under it: a truncated text, an empty
\* collection, and a collection with a deactivated record before an active one
\* of the same short code
TruncatedText == << << << "id" >> >> >>
DeactivatedPair ==
  << [ id |-> "r0", originalUrl |-> UrlOk, shortCode |-> CodeAbc, createdAt |-> 0,
       expiresAt |-> MsPerMinute, validityMinutes |-> 1, clicks |-> << >>,
       isActive |-> FALSE ],
     [ id |-> "r1", originalUrl |-> UrlOk, shortCode |-> CodeAbc, createdAt |-> 0,
       expiresAt |-> MsPerMinute, validityMinutes |-> 1, clicks |-> << >>,
       isActive |-> TRUE ] >>
ExternalTexts ==
  { TruncatedText, JSONstringify(<< >>), JSONstringify(DeactivatedPair) }

\* what the callers of the logger pass, and Logger.generateId's outcome
LogMessages == { "m" }
LogData == { "d" }
LogSources == { "s" }
LogIds == { "l1" }

\* the :shortCode route parameter
RouteCodes == { CodeAbc, CodeAaaaaa, <<"z","z","z">> }

AppHref == <<"a","p","p">>
UserAgent == "UA"
Referrer == ""

----------------------------------------------------------------------------
(* Timers *)

clearInterval(live, id) == { t \in live : t.id # id }

\* setInterval: the id of the new timer
newIntervalId(live) ==
  CHOOSE n \in 1..(Cardinality(live) + 1) : \A t \in live : t.id # n

\* mutant: the effect returns no cleanup
effectCleanup_missing(live, id) == live

\* the cleanup function the resolver effect returned: () => clearInterval(id)
effectCleanup(live, id) == clearInterval(live, id)

----------------------------------------------------------------------------
(* Initial state: nothing stored, nothing mounted *)

Init ==
  /\ now = 0
  /\ stored = NoItem
  /\ view = "none"
  /\ shortenedUrls = << >>
  /\ submitted = << >>
  /\ errors = << >>
  /\ successCount = 0
  /\ createdUrls = << >>
  /\ prevUrls = << >>
  /\ prevStored = NoItem
  /\ saveFailed = FALSE
  /\ shortCode = << >>
  /\ error = ""
  /\ redirecting = TRUE
  /\ countdown = CountdownStart
  /\ timers = {}
  /\ cleanup = 0
  /\ effectPending = FALSE
  /\ href = AppHref
  /\ storedAtMount = NoItem
  /\ mountedAt = 0
  /\ everStarted = FALSE
  /\ ticks = 0
  /\ storeLog = << >>
  /\ uncaught = FALSE
  /\ logs = << >>
  /\ appLogs = NoLogItem
  /\ logWriteFailures = 0

\* the state of a UrlShortenerForm that is not mounted, or just mounted
freshForm ==
  /\ submitted' = << >>
  /\ errors' = << >>
  /\ successCount' = 0
  /\ createdUrls' = << >>
  /\ prevUrls' = << >>
  /\ prevStored' = NoItem

\* the state of a RedirectHandler that is not mounted
noResolver ==
  /\ shortCode' = << >>
  /\ error' = ""
  /\ redirecting' = TRUE
  /\ countdown' = CountdownStart
  /\ cleanup' = 0
  /\ effectPending' = FALSE
  /\ storedAtMount' = NoItem
  /\ mountedAt' = 0
  /\ everStarted' = FALSE
  /\ ticks' = 0

----------------------------------------------------------------------------
(* MainApp: the form tab and the statistics tab *)

\* UrlShortenerForm mounts; useUrlStorage's effect loads the collection
MountForm ==
  /\ view \in { "none", "away" }
  /\ view' = "form"
  /\ shortenedUrls' = loadUrls(<< >>)
  /\ storeLog' = loadUrlsRun(<< >>).log
  /\ uncaught' = loadUrlsRun(<< >>).thrown
  /\ href' = AppHref
  /\ saveFailed' = FALSE
  /\ freshForm
  /\ noResolver
  /\ UNCHANGED << now, stored, timers, loggerVars >>

\* Statistics mounts
MountStatistics ==
  /\ view \in { "none", "away" }
  /\ view' = "stats"
  /\ shortenedUrls' = loadUrls(<< >>)
  /\ storeLog' = loadUrlsRun(<< >>).log
  /\ uncaught' = loadUrlsRun(<< >>).thrown
  /\ href' = AppHref
  /\ saveFailed' = FALSE
  /\ freshForm
  /\ noResolver
  /\ UNCHANGED << now, stored, timers, loggerVars >>

\* handleSubmit: the state left once every form's record went through addUrl
handleSubmitCommit(allErrors, urls, st) ==
  /\ errors' = allErrors
  /\ successCount' = Len(urls)
  /\ createdUrls' = urls
  /\ stored' = st.item
  /\ shortenedUrls' = st.state
  /\ saveFailed' = st.failed
  /\ storeLog' = st.log
  /\ uncaught' = st.thrown

\* handleSubmit: the branch taken on what validateAllForms returned
handleSubmitValidated(forms, allErrors) ==
  IF DOMAIN allErrors # {}
    THEN /\ errors' = allErrors
         /\ successCount' = 0
         /\ createdUrls' = << >>
         /\ saveFailed' = FALSE
         /\ storeLog' = << >>
         /\ uncaught' = FALSE
         /\ UNCHANGED << stored, shortenedUrls >>
    ELSE \E draws \in [ 1..Len(forms) -> RandomDraws ],
            ids \in [ 1..Len(forms) -> RecordIds ] :
           handleSubmitCommit(
             allErrors,
             [ i \in 1..Len(forms) |->
                 newShortenedUrl(forms[i], draws[i], ids[i], now) ],
             addAll(storeAt(stored, shortenedUrls),
                    shortenedUrls,
                    [ i \in 1..Len(forms) |->
                        newShortenedUrl(forms[i], draws[i], ids[i], now) ]))

\* handleSubmit
HandleSubmit(forms) ==
  /\ view = "form"
  /\ Len(forms) <= MaxForms
  /\ handleSubmitValidated(forms, validateAllForms(forms, shortenedUrls))
  /\ submitted' = forms
  /\ prevUrls' = shortenedUrls
  /\ prevStored' = stored
  /\ UNCHANGED << now, view, timers, href, resolverVars, loggerVars >>

\* Statistics handleClearAll; confirmed is the answer to window.confirm
HandleClearAll(confirmed) ==
  /\ view = "stats"
  /\ IF confirmed
       THEN /\ stored' = clearAllUrls(storeAt(stored, shortenedUrls)).item
            /\ shortenedUrls' = clearAllUrls(storeAt(stored, shortenedUrls)).state
            /\ storeLog' = clearAllUrls(storeAt(stored, shortenedUrls)).log
            /\ uncaught' = clearAllUrls(storeAt(stored, shortenedUrls)).thrown
       ELSE /\ storeLog' = << >>
            /\ uncaught' = FALSE
            /\ UNCHANGED << stored, shortenedUrls >>
  /\ UNCHANGED << now, view, timers, href, saveFailed, formVars, resolverVars,
                  loggerVars >>

----------------------------------------------------------------------------
(* Redirect resolver: RedirectHandler *)

\* The body of RedirectHandler's effect.  closure is the shortenedUrls of the
\* render the effect belongs to, base the store state it starts from (the
\* shortenedUrls state it leaves when it sets none), live the timers left by the previous run's cleanup, queued
\* says a state update is already queued, prevError and prevRedirecting are
\* the state the setters compare with.
ResolverEffect(code, closure, base, live, queued, prevError, prevRedirecting) ==
  LET found == findUrlByShortCode(closure, code)
      fail(message) ==
        /\ error' = message
        /\ redirecting' = FALSE
        /\ shortenedUrls' = base.state
        /\ timers' = live
        /\ cleanup' = 0
        /\ effectPending' = (queued \/ message # prevError \/ prevRedirecting)
        /\ saveFailed' = FALSE
        /\ storeLog' = base.log
        /\ uncaught' = base.thrown
        /\ UNCHANGED stored
  IN  IF code = << >>
        THEN fail("Invalid short code")
        ELSE IF found = 0
          THEN fail("Short URL not found")
          ELSE IF isUrlExpired(closure[found], now)
            THEN fail("This short URL has expired")
            ELSE \E id \in ClickIds, place \in LocationDraws, octets \in OctetDraws :
                   LET clickData ==
                         [ id |-> id,
                           timestamp |-> now,
                           userAgent |-> UserAgent,
                           referrer |-> Referrer,
                           ip |-> getSimulatedIP(octets),
                           location |-> getCoarseLocation(place) ]
                       st == addClick(base, closure, code, clickData)
                       countdownInterval == newIntervalId(live)
                   IN  /\ stored' = st.item
                       /\ shortenedUrls' = st.state
                       /\ saveFailed' = st.failed
                       /\ storeLog' = st.log
                       /\ uncaught' = st.thrown
                       /\ timers' = live \cup
                            { [ id |-> countdownInterval,
                                url |-> closure[found].originalUrl ] }
                       /\ cleanup' = countdownInterval
                       /\ effectPending' = (queued \/ ~ st.failed)
                       /\ UNCHANGED << error, redirecting >>

\* The route /:shortCode mounts RedirectHandler: the first render, then the
\* effects of that render in hook order, useUrlStorage's loadUrls and the
\* resolver effect, both closed over the first render's empty shortenedUrls.
MountRedirect(code) ==
  /\ view \in { "none", "away" }
  /\ view' = "redirect"
  /\ shortCode' = code
  /\ countdown' = CountdownStart
  /\ href' = AppHref
  /\ storedAtMount' = stored
  /\ mountedAt' = now
  /\ ticks' = 0
  /\ ResolverEffect(code, << >>,
                    [ storeAt(stored, loadUrls(<< >>)) EXCEPT
                        !.log = loadUrlsRun(<< >>).log,
                        !.thrown = loadUrlsRun(<< >>).thrown ],
                    timers, loadUrlsRun(<< >>).set, "", TRUE)
  /\ everStarted' = (cleanup' # 0)
  /\ freshForm
  /\ UNCHANGED << now, loggerVars >>

\* A committed re-render runs the previous effect's cleanup and the effect
\* again: its dependencies findUrlByShortCode, addClick and isUrlExpired are
\* new functions on every render.
RunEffect ==
  /\ view = "redirect"
  /\ effectPending
  /\ ResolverEffect(shortCode, shortenedUrls, storeAt(stored, shortenedUrls),
                    effectCleanup(timers, cleanup), FALSE, error, redirecting)
  /\ everStarted' = (everStarted \/ cleanup' # 0)
  /\ UNCHANGED << now, view, href, countdown, shortCode, storedAtMount,
                  mountedAt, ticks, formVars, loggerVars >>

\* The interval callback of timer t: setCountdown(prev => ...)
Tick(t) ==
  /\ t \in timers
  /\ IF countdown <= 1
       THEN /\ timers' = clearInterval(timers, t.id)
            /\ href' = t.url
            /\ countdown' = 0
       ELSE /\ countdown' = countdown - 1
            /\ UNCHANGED << timers, href >>
  /\ effectPending' = (effectPending \/ (view = "redirect" /\ countdown' # countdown))
  /\ ticks' = ticks + 1
  /\ UNCHANGED << now, stored, view, shortenedUrls, saveFailed, shortCode, error,
                  redirecting, cleanup, storedAtMount, mountedAt, everStarted,
                  formVars, storeLog, uncaught, loggerVars >>

\* React unmounts the mounted component (tab change, history navigation);
\* the resolver's last effect cleanup runs.
Unmount ==
  /\ view \in { "form", "stats", "redirect" }
  /\ view' = "none"
  /\ timers' = IF view = "redirect" /\ cleanup # 0
                 THEN effectCleanup(timers, cleanup)
                 ELSE timers
  /\ effectPending' = FALSE
  /\ shortenedUrls' = << >>
  /\ saveFailed' = FALSE
  /\ freshForm
  /\ storeLog' = << >>
  /\ uncaught' = FALSE
  /\ UNCHANGED << now, stored, href, shortCode, error, redirecting, countdown,
                  cleanup, storedAtMount, mountedAt, everStarted, ticks,
                  loggerVars >>

\* The page is left (the navigation of a hand-off completes, or the user
\* closes or reloads it): the browser drops the page's timers.
Unload ==
  /\ view \in { "form", "stats", "redirect" }
  /\ view' = "away"
  /\ timers' = {}
  /\ shortenedUrls' = << >>
  /\ saveFailed' = FALSE
  /\ freshForm
  /\ noResolver
  /\ storeLog' = << >>
  /\ uncaught' = FALSE
  /\ UNCHANGED << now, stored, href, loggerVars >>

\* time passes
AdvanceTime(t) ==
  /\ t > now
  /\ now' = t
  /\ UNCHANGED << stored, view, shortenedUrls, saveFailed, timers, href,
                  formVars, resolverVars, storeLog, uncaught, loggerVars >>

----------------------------------------------------------------------------

\* another writer sets the "shortened-urls" key
ExternalWrite(text) ==
  /\ stored' = [ present |-> TRUE, text |-> text ]
  /\ UNCHANGED << now, view, shortenedUrls, saveFailed, timers, href, formVars,
                  resolverVars, storeLog, uncaught, loggerVars >>

\* The whole application, the form submitted with one request at a time
Next ==
  \/ MountForm
  \/ MountStatistics
  \/ \E forms \in SingleForms : HandleSubmit(forms)
  \/ \E confirmed \in BOOLEAN : HandleClearAll(confirmed)
  \/ \E code \in RouteCodes : MountRedirect(code)
  \/ RunEffect
  \/ \E t \in timers : Tick(t)
  \/ Unmount
  \/ Unload
  \/ \E t \in Instants : AdvanceTime(t)

Spec == Init /\ [][Next]_vars

\* The main page alone (the form and the statistics tab) at one instant,
\* the form submitted with batches of up to MaxBatch requests
SubmitNext ==
  \/ MountForm
  \/ MountStatistics
  \/ \E forms \in Batches : HandleSubmit(forms)
  \/ \E confirmed \in BOOLEAN : HandleClearAll(confirmed)
  \/ Unmount
  \/ Unload

SubmitSpec == Init /\ [][SubmitNext]_vars

\* The application beside another writer of the "shortened-urls" key
StoreNext ==
  \/ Next
  \/ \E text \in ExternalTexts : ExternalWrite(text)

StoreSpec == Init /\ [][StoreNext]_vars

\* The main page with the clock sampled around the end of a validity
ExpiryNext ==
  \/ MountForm
  \/ MountStatistics
  \/ \E forms \in SingleForms : HandleSubmit(forms)
  \/ \E confirmed \in BOOLEAN : HandleClearAll(confirmed)
  \/ Unmount
  \/ Unload
  \/ \E t \in BoundaryInstants : AdvanceTime(t)

ExpirySpec == Init /\ [][ExpiryNext]_vars

\* The Logger alone.  The clock moves on by 1 ms between two calls, the four
\* levels are called in turn, a call is made while fewer than MaxLogAppends
\* were, and the write of "app-logs" hits the quota at most
\* MaxLogWriteFailures times.
LogCallDue ==
  /\ now < MaxLogAppends
  /\ IF logs = << >> THEN TRUE ELSE logs[1].timestamp < now
LogWriteOutcomes ==
  IF logWriteFailures < MaxLogWriteFailures THEN BOOLEAN ELSE { TRUE }

LogNext ==
  \/ /\ LogCallDue /\ now % 4 = 0
     /\ \E m \in LogMessages, d \in LogData, s \in LogSources, id \in LogIds,
           ok \in LogWriteOutcomes : LoggerInfo(m, d, s, id, ok)
  \/ /\ LogCallDue /\ now % 4 = 1
     /\ \E m \in LogMessages, d \in LogData, s \in LogSources, id \in LogIds,
           ok \in LogWriteOutcomes : LoggerWarn(m, d, s, id, ok)
  \/ /\ LogCallDue /\ now % 4 = 2
     /\ \E m \in LogMessages, d \in LogData, s \in LogSources, id \in LogIds,
           ok \in LogWriteOutcomes : LoggerError(m, d, s, id, ok)
  \/ /\ LogCallDue /\ now % 4 = 3
     /\ \E m \in LogMessages, d \in LogData, s \in LogSources, id \in LogIds,
           ok \in LogWriteOutcomes : LoggerDebug(m, d, s, id, ok)
  \/ /\ ~ LogCallDue
     /\ now < MaxLogAppends
     /\ AdvanceTime(now + 1)

LogSpec == Init /\ [][LogNext]_vars

\* The event loop runs every scheduled task: a committed render's effects
\* and the callback of a live interval timer.
FairSpec ==
  /\ Spec
  /\ WF_vars(RunEffect)
  /\ WF_vars(\E t \in timers : Tick(t))

----------------------------------------------------------------------------
(* What the claims speak of *)

\* the collection that was persisted when the resolver mounted
urlsAtMount ==
  IF storedAtMount.present THEN JSONparse(storedAtMount.text) ELSE << >>

\* the first active record with the attempt's short code, 0 when there is none
ActiveAtMount ==
  LET hits == { i \in 1..Len(urlsAtMount) :
                  urlsAtMount[i].shortCode = shortCode /\ urlsAtMount[i].isActive }
  IN  IF hits = {} THEN 0 ELSE CHOOSE i \in hits : \A j \in hits : i <= j

\* clicks the attempt has appended so far to the record it resolves
ClicksGrown ==
  Len(persistedUrls[ActiveAtMount].clicks) - Len(urlsAtMount[ActiveAtMount].clicks)

NotFoundMessages == { "Invalid short code", "Short URL not found" }
ExpiredMessage == "This short URL has expired"
DuplicateMessage == "Duplicate shortcode in current forms"

\* a hand-off has set window.location.href
HandedOff == href # AppHref

----------------------------------------------------------------------------
(* C1: a redirect attempt for an active, non-expired record appends exactly
   one ClickEvent: while the resolver is mounted the record's click sequence
   has grown by at most 1, and by exactly 1 once the hand-off is made. *)
C1_ExactlyOneClick ==
  ( /\ view = "redirect"
    /\ ActiveAtMount # 0
    /\ now <= urlsAtMount[ActiveAtMount].expiresAt )
  => /\ ClicksGrown <= 1
     /\ HandedOff => ClicksGrown = 1

(* C3: a submitted batch of k valid requests commits all k records: the
   collection in memory and the persisted one are the previous collection with
   the k new records appended in form order, and k is the count reported. *)
C3_BatchCommitsAll ==
  ( /\ view = "form"
    /\ submitted # << >>
    /\ DOMAIN errors = {}
    /\ ~ saveFailed )
  => /\ successCount = Len(submitted)
     /\ Len(createdUrls) = Len(submitted)
     /\ shortenedUrls = prevUrls \o createdUrls
     /\ persistedUrls = prevUrls \o createdUrls

(* C5: a redirect attempt shows NotFound exactly when the short code is
   missing or the persisted collection holds no active record with it. *)
C5_NotFoundIffNoActiveRecord ==
  view = "redirect" =>
    ( error \in NotFoundMessages <=> (shortCode = << >> \/ ActiveAtMount = 0) )

(* C6: NotFound and Expired are terminal: a resolver that shows an error
   appends no click, starts no countdown timer and makes no hand-off. *)
C6_FailureIsTerminal ==
  [][ ( /\ view = "redirect"
        /\ view' = "redirect"
        /\ error # "" )
      => /\ stored' = stored
         /\ timers' \subseteq timers
         /\ href' = href ]_vars

(* C10: no two active records of the collection, in memory or persisted,
   have the same shortCode. *)
UniqueShortCodes(urls) ==
  \A i, j \in 1..Len(urls) :
    (i # j /\ urls[i].isActive /\ urls[j].isActive)
      => urls[i].shortCode # urls[j].shortCode

C10_ShortCodesUnique ==
  UniqueShortCodes(shortenedUrls) /\ UniqueShortCodes(persistedUrls)

(* C2: once the countdown runs and the resolver stays mounted, the ticks take
   it to the hand-off: a live countdown timer leads to the hand-off (or to a
   teardown). *)
C2_RedirectingLeadsToCompleted ==
  (view = "redirect" /\ timers # {}) ~> (HandedOff \/ view # "redirect")

(* C4: a redirect attempt for an active record that is expired when the
   resolver mounts appends no click, leaves the persisted collection as it
   was, starts no countdown and no hand-off, and ends showing Expired. *)
ExpiredAtMount ==
  /\ view = "redirect"
  /\ ActiveAtMount # 0
  /\ mountedAt > urlsAtMount[ActiveAtMount].expiresAt

C4_ExpiredAppendsNoClick ==
  ExpiredAtMount
  => /\ stored = storedAtMount
     /\ persistedUrls = urlsAtMount
     /\ timers = {}
     /\ ~ everStarted
     /\ countdown = CountdownStart
     /\ ~ HandedOff
     /\ ~ effectPending => error = ExpiredMessage

C4_Witness ==
  /\ ExpiredAtMount
  /\ ~ effectPending
  /\ error = ExpiredMessage
  /\ stored = storedAtMount

(* C7: tearing the resolver down cancels its countdown timer: once nothing is
   mounted no timer is live, so no tick fires, no hand-off is made and the
   attempt's state and the collection stay as they are. *)
C7_TeardownCancelsTimer ==
  [][ view' = "none"
      => /\ timers' = {}
         /\ view = "none"
              => UNCHANGED << href, countdown, error, redirecting, stored, ticks >> ]_vars

\* torn down while the countdown ran, before it reached zero
C7_Witness ==
  /\ view = "none"
  /\ everStarted
  /\ cleanup # 0
  /\ countdown \in 1..CountdownStart
  /\ ~ HandedOff
  /\ timers = {}

(* C8: a batch in which a request has a validation error (bad URL, bad or
   taken custom code, validity out of range, or a custom code that occurs
   twice in the batch) creates no record: the collection in memory and the
   persisted one are as before the submit. *)
RequestInvalid(form, existingUrls) ==
  \/ Trim(form.originalUrl) = << >>
  \/ ~ validateUrl(form.originalUrl)
  \/ /\ Trim(form.customShortCode) # << >>
     /\ \/ ~ validateShortCode(form.customShortCode)
        \/ \E i \in 1..Len(existingUrls) :
             existingUrls[i].shortCode = form.customShortCode
  \/ form.validityMinutes \notin 1..MaxValidityMinutes

SameCustomCode(forms, i, j) ==
  /\ i # j
  /\ Trim(forms[i].customShortCode) # << >>
  /\ Trim(forms[i].customShortCode) = Trim(forms[j].customShortCode)

BatchHasDuplicate(forms) ==
  \E i, j \in 1..Len(forms) : SameCustomCode(forms, i, j)

C8_InvalidBatchCommitsNothing ==
  ( /\ view = "form"
    /\ submitted # << >>
    /\ \/ \E i \in 1..Len(submitted) : RequestInvalid(submitted[i], prevUrls)
       \/ BatchHasDuplicate(submitted) )
  => /\ stored = prevStored
     /\ shortenedUrls = prevUrls
     /\ createdUrls = << >>
     /\ successCount = 0

\* a batch refused only because one custom code occurs twice in it
C8_Witness ==
  /\ view = "form"
  /\ Len(submitted) = 2
  /\ BatchHasDuplicate(submitted)
  /\ \A i \in 1..Len(submitted) : ~ RequestInvalid(submitted[i], prevUrls)
  /\ stored = prevStored
  /\ shortenedUrls = prevUrls

(* C9, as claimed: every request of a batch whose non-empty custom code
   occurs in another request of the batch, the first occurrence too, gets the
   duplicate error on customShortCode. *)
HasDuplicateError(i) ==
  /\ i \in DOMAIN errors
  /\ "customShortCode" \in DOMAIN errors[i]
  /\ errors[i]["customShortCode"] = DuplicateMessage

ExpiryMatchesValidity(urls) ==
  \A i \in 1..Len(urls) :
    urls[i].expiresAt = urls[i].createdAt + urls[i].validityMinutes * 60000

OneGeneratedSubmit ==
  /\ view = "form"
  /\ Len(submitted) = 1
  /\ Trim(submitted[1].customShortCode) = << >>
  /\ DOMAIN errors = {}

C11_OneRecordCreated ==
  /\ ExpiryMatchesValidity(shortenedUrls)
  /\ ExpiryMatchesValidity(persistedUrls)
  /\ OneGeneratedSubmit
       => /\ Len(createdUrls) = 1
          /\ successCount = 1
          /\ Len(createdUrls[1].shortCode) = 6
          /\ \A i \in 1..6 : createdUrls[1].shortCode[i] \in Alphanumeric
          /\ createdUrls[1].originalUrl = submitted[1].originalUrl
          /\ createdUrls[1].validityMinutes = submitted[1].validityMinutes
          /\ createdUrls[1].expiresAt =
               createdUrls[1].createdAt + submitted[1].validityMinutes * 60000
          /\ createdUrls[1].clicks = << >>
          /\ createdUrls[1].isActive
          /\ ~ saveFailed
               => /\ shortenedUrls = Append(prevUrls, createdUrls[1])
                  /\ persistedUrls = Append(prevUrls, createdUrls[1])

C11_Witness ==
  /\ OneGeneratedSubmit
  /\ ~ saveFailed
  /\ prevUrls # << >>
  /\ Len(shortenedUrls) = Len(prevUrls) + 1
  /\ shortenedUrls[Len(shortenedUrls)].shortCode \in { CodeAaaaaa }

(* C12: no persistence failure leaves a Record Store operation as an
   exception: whatever the handler, no exception escapes useUrlStorage; a
   mount that finds a text that does not parse under the key logs the load
   failure at level error and leaves the collection as it was (empty); a
   handler in which the storage write threw logs the save failure at level
   error. *)
Mounted == view \in { "form", "stats", "redirect" }
StoredUnparseable == stored.present /\ ~ JSONparses(stored.text)
Logged(entries, level, message) ==
  \E i \in 1..Len(entries) : entries[i] = LogEntry(level, message)

C12_PersistenceFailuresCaught ==
  [][ /\ ~ uncaught'
      /\ (~ Mounted /\ Mounted' /\ StoredUnparseable)
           => /\ Logged(storeLog', "error", "Failed to load URLs from storage")
              /\ shortenedUrls' = << >>
      /\ saveFailed'
           => Logged(storeLog', "error", "Failed to save URLs to storage") ]_vars

\* a component mounted over a text that does not parse
C12_Witness ==
  /\ Mounted
  /\ StoredUnparseable
  /\ Logged(storeLog, "error", "Failed to load URLs from storage")
  /\ shortenedUrls = << >>
  /\ ~ uncaught

(* C13: round trip: once a handler has saved a collection (the storage write
   succeeded), what a fresh useUrlStorage instance loads from the key equals
   the collection that was saved, field for field and in order, the click
   sequences included; the empty collection round-trips too. *)
SavedInLastHandler ==
  /\ Mounted
  /\ Logged(storeLog, "info", "Saved URLs to storage")
  /\ ~ saveFailed

C13_RoundTrip ==
  /\ JSONparses(JSONstringify(<< >>))
  /\ JSONparse(JSONstringify(<< >>)) = << >>
  /\ SavedInLastHandler
       => /\ stored.present
          /\ JSONparses(stored.text)
          /\ loadUrls(<< >>) = shortenedUrls

\* two records saved, one of them with a click
C13_Witness ==
  /\ SavedInLastHandler
  /\ Len(shortenedUrls) = 2
  /\ \E i \in 1..2 : shortenedUrls[i].clicks # << >>
  /\ loadUrls(<< >>) = shortenedUrls

(* C14: the expiry test is strict: for every record, useUrlStorage's
   isUrlExpired and Statistics' isExpired are true exactly when now is after
   expiresAt; a record with a validity of 1 minute is not expired 59999 ms and
   60000 ms after createdAt and is expired 60001 ms after it; the statistics
   view labels an active record Expired exactly when now is after expiresAt. *)
ExpiryStrictFor(url) ==
  /\ isUrlExpired(url, now) <=> now > url.expiresAt
  /\ isExpired(url, now) <=> now > url.expiresAt
  /\ url.validityMinutes = 1
       => /\ ~ isUrlExpired(url, url.createdAt + 59999)
          /\ ~ isExpired(url, url.createdAt + 59999)
          /\ ~ isUrlExpired(url, url.createdAt + 60000)
          /\ ~ isExpired(url, url.createdAt + 60000)
          /\ isUrlExpired(url, url.createdAt + 60001)
          /\ isExpired(url, url.createdAt + 60001)
  /\ (view = "stats" /\ url.isActive)
       => (getStatusChip(url, now) = "Expired" <=> now > url.expiresAt)

C14_ExpiryIsStrict ==
  \A i \in 1..Len(shortenedUrls) : ExpiryStrictFor(shortenedUrls[i])

\* the statistics view at the very instant a record's validity ends
C14_Witness ==
  /\ view = "stats"
  /\ \E i \in 1..Len(shortenedUrls) :
       /\ shortenedUrls[i].validityMinutes = 1
       /\ now = shortenedUrls[i].createdAt + 60000
       /\ getStatusChip(shortenedUrls[i], now) = "Active"

(* C15: clearAll is idempotent: after a call, whatever the state it was made
   in, the in-memory collection is empty, the "shortened-urls" key is absent
   and no exception was raised; a call made in that state leaves all three
   as they are. *)
Cleared ==
  /\ view = "stats"
  /\ Logged(storeLog, "info", "Cleared all URLs")

C15_ClearAllIdempotent ==
  [][ /\ Cleared' => ( /\ shortenedUrls' = << >>
                       /\ stored' = NoItem
                       /\ ~ uncaught' )
      /\ (Cleared /\ Cleared')
           => UNCHANGED << shortenedUrls, stored, uncaught >> ]_vars

\* cleared, in the statistics view, where the next call can be made
C15_Witness ==
  /\ Cleared
  /\ shortenedUrls = << >>
  /\ stored = NoItem
  /\ ~ uncaught

(* C16: addClick(code, click) appends the click at the end of the click
   sequence of the active records whose shortCode is code and of no other
   record: in a step of the resolver that adds a click, a record that is
   deactivated or has another shortCode keeps its click sequence, and a
   record that is active and has the shortCode gets one click appended after
   the clicks it had. *)
ClickAdded ==
  /\ view = "redirect"
  /\ view' = "redirect"
  /\ shortenedUrls' # shortenedUrls
  /\ Logged(storeLog', "info", "Added click data")

C16_ClickOnlyOnActiveMatches ==
  [][ ClickAdded
      => /\ Len(shortenedUrls') = Len(shortenedUrls)
         /\ \A i \in 1..Len(shortenedUrls) :
              IF shortenedUrls[i].shortCode = shortCode /\ shortenedUrls[i].isActive
                THEN /\ Len(shortenedUrls'[i].clicks) = Len(shortenedUrls[i].clicks) + 1
                     /\ SubSeq(shortenedUrls'[i].clicks, 1, Len(shortenedUrls[i].clicks))
                          = shortenedUrls[i].clicks
                ELSE shortenedUrls'[i].clicks = shortenedUrls[i].clicks ]_vars

(* C17, as claimed: validateForm returns no field error exactly when
   originalUrl is non-blank and a valid absolute URL, the custom short code is
   empty or is 3 to 20 alphanumeric characters and the shortCode of no
   existing record (active or expired), and validityMinutes is in 1..43200. *)
WellFormedCode(code) ==
  /\ Len(code) \in 3..20
  /\ \A i \in 1..Len(code) : code[i] \in Alphanumeric

UrlAndValidityOk(form) ==
  /\ Trim(form.originalUrl) # << >>
  /\ validateUrl(form.originalUrl)
  /\ form.validityMinutes \in 1..43200

CodeFree(code, existingUrls) ==
  /\ WellFormedCode(code)
  /\ \A i \in 1..Len(existingUrls) : existingUrls[i].shortCode # code

AcceptedAsClaimed(form, existingUrls) ==
  /\ UrlAndValidityOk(form)
  /\ form.customShortCode = << >> \/ CodeFree(form.customShortCode, existingUrls)

FormsToValidate ==
  EdgeForms \cup (IF Len(submitted) = 1 THEN { submitted[1] } ELSE {})

C17_AcceptsIffAllChecksPass ==
  view = "form"
  => \A form \in FormsToValidate :
       validateForm(form, shortenedUrls) = NoErrors
         <=> AcceptedAsClaimed(form, shortenedUrls)

(* C17, amended: the same with "empty" read as blank: a custom short code
   that is empty or only white space is passed over (a generated code is used
   at commit); and the last submitted single form was refused exactly when
   that condition failed for it on the collection of that moment. *)
Accepted(form, existingUrls) ==
  /\ UrlAndValidityOk(form)
  /\ Trim(form.customShortCode) = << >>
       \/ CodeFree(form.customShortCode, existingUrls)

C17_AcceptsIffChecksPassOrBlankCode ==
  view = "form"
  => /\ \A form \in FormsToValidate :
          validateForm(form, shortenedUrls) = NoErrors
            <=> Accepted(form, shortenedUrls)
     /\ Len(submitted) = 1
          => (DOMAIN errors = {} <=> Accepted(submitted[1], prevUrls))

\* a free, well-formed custom code refused because an expired record has it
C17_Witness ==
  /\ view = "form"
  /\ Len(submitted) = 1
  /\ submitted[1].customShortCode = CodeAbc
  /\ DOMAIN errors # {}
  /\ errors[1]["customShortCode"] = "This shortcode is already taken"
  /\ \E i \in 1..Len(prevUrls) :
       /\ prevUrls[i].shortCode = CodeAbc
       /\ now > prevUrls[i].expiresAt

(* C18: after any sequence of appends the log holds at most 1000 entries,
   most recent first: an append puts the new entry at index 0 before the
   entries there were, in their order, the oldest being the ones dropped;
   and when the write of "app-logs" succeeds, the persisted value is the
   serialized in-memory sequence. *)
\* a step of the logger: the clock moves only between two calls
LogAppended == now' = now

C18_LogBoundedNewestFirst ==
  [][ /\ Len(logs') <= 1000
      /\ LogAppended
           => /\ logs'[1].timestamp = now
              /\ Len(logs') = IF Len(logs) < 1000 THEN Len(logs) + 1 ELSE 1000
              /\ Tail(logs') = SubSeq(logs, 1, Len(logs') - 1)
              /\ logWriteFailures' = logWriteFailures
                   => /\ appLogs'.present
                      /\ appLogs'.text = StringifyLogs(logs') ]_vars

\* a full log whose first entries were dropped, persisted as it is
C18_Witness ==
  /\ Len(logs) = 1000
  /\ logs[1000].timestamp > 0
  /\ logs[1].timestamp > logs[1000].timestamp
  /\ logWriteFailures = 1
  /\ appLogs.present
  /\ appLogs.text = StringifyLogs(logs)

(* C19: records are changed only by appending clicks or by clearing the whole
   collection: over every addUrl, addClick and loadUrls, in memory and under
   the "shortened-urls" key, a record that exists keeps its place and its
   id, originalUrl, shortCode, createdAt, expiresAt, validityMinutes and
   isActive, its clicks only grow at the end, and no record disappears
   unless clearAllUrls ran.  The addUrl calls of one submit are taken one
   by one. *)
KeepsRecords(before, after) ==
  /\ Len(before) <= Len(after)
  /\ \A i \in 1..Len(before) :
       /\ [ after[i] EXCEPT !.clicks = << >> ] = [ before[i] EXCEPT !.clicks = << >> ]
       /\ Len(before[i].clicks) <= Len(after[i].clicks)
       /\ SubSeq(after[i].clicks, 1, Len(before[i].clicks)) = before[i].clicks

\* the persisted collection once the first k addUrl calls of the last submit
\* have returned
PersistedAfterAddUrl(k) ==
  JSONparse(addAll(storeAt(prevStored, prevUrls), prevUrls,
                   SubSeq(createdUrls, 1, k)).item.text)

C19_RecordsOnlyGrow ==
  [][ ~ Cleared'
      => /\ KeepsRecords(persistedUrls, persistedUrls')
         /\ view' = view => KeepsRecords(shortenedUrls, shortenedUrls')
         /\ \A k \in 2..Len(createdUrls') :
              KeepsRecords(PersistedAfterAddUrl(k - 1)', PersistedAfterAddUrl(k)') ]_vars

(* C20: when localStorage.setItem throws in saveUrls, the handler leaves the
   in-memory collection and the "shortened-urls" key exactly as they were:
   the record given to addUrl, or the click given to addClick, is in
   neither, and handleSubmit still reports every request of the batch as
   created. *)
HoldsRecord(urls, url) == \E i \in 1..Len(urls) : urls[i] = url

C20_FailedSaveChangesNothing ==
  [][ saveFailed'
      => /\ shortenedUrls' = shortenedUrls
         /\ stored' = stored
         /\ Logged(storeLog', "error", "Failed to save URLs to storage")
         /\ ~ uncaught'
         /\ view' = "form"
              => /\ successCount' = Len(submitted')
                 /\ Len(createdUrls') = Len(submitted')
                 /\ \A i \in 1..Len(createdUrls') :
                      ~ HoldsRecord(shortenedUrls, createdUrls'[i])
                        => /\ ~ HoldsRecord(shortenedUrls', createdUrls'[i])
                           /\ ~ HoldsRecord(persistedUrls', createdUrls'[i]) ]_vars

\* a submit whose write failed on the quota and that reports one record
C20_Witness ==
  /\ view = "form"
  /\ saveFailed
  /\ successCount = 1
  /\ Len(createdUrls) = 1
  /\ shortenedUrls = prevUrls
  /\ stored = prevStored
  /\ ~ HoldsRecord(prevUrls, createdUrls[1])
  /\ ~ HoldsRecord(shortenedUrls, createdUrls[1])
  /\ ~ HoldsRecord(persistedUrls, createdUrls[1])

(* C21: for one useUrlStorage instance, after its initial loadUrls and after
   every addUrl, addClick or clearAllUrls whose storage access succeeded,
   the in-memory collection is the collection persisted under
   "shortened-urls", an absent key counting as the empty collection.  The
   instance is the only writer of the key. *)
LoadedAtMount ==
  /\ ~ Mounted
  /\ Mounted'
  /\ ~ Logged(storeLog', "error", "Failed to load URLs from storage")

SavedByHandler ==
  /\ Mounted
  /\ view' = view
  /\ (stored' # stored \/ shortenedUrls' # shortenedUrls)
  /\ Logged(storeLog', "info", "Saved URLs to storage")
  /\ ~ saveFailed'

ClearedByHandler ==
  /\ Cleared'
  /\ view' = view
  /\ stored' = NoItem
  /\ (stored # NoItem \/ shortenedUrls' # shortenedUrls \/ storeLog' # storeLog)

====
